---- MODULE Spec2Model ----
(***************************************************************************)
(* Model of backend/main.py and backend/modal_app.py: the session          *)
(* (playwright / browser / context / page handles held in `state`), the    *)
(* command handlers acting on the shared page, and the per-connection      *)
(* screenshot loops over `state.active_connections`.                       *)
(*                                                                         *)
(* Every `await` of the source is a suspension point of the single event   *)
(* loop: one action of the model runs a coroutine from one suspension      *)
(* point to the next.  The awaited engine call takes effect in the step    *)
(* that resumes the coroutine.                                             *)
(***************************************************************************)
EXTENDS Integers, Sequences, FiniteSets, TLC

\* ---------------------------------------------------------------- bounds
MaxStartups == 2
MaxShutdowns == 2
MaxHist == 3
HalfSteps == 2

\* ------------------------------------------------------ program constants
ViewportWidth == 1280
ViewportHeight == 800

None == 0
AboutBlank == 0

\* Normalised coordinates are the fractions n / Grid, n \in 0..Grid; a pixel
\* value is kept in units of 1/Grid pixel, so that x * 1280 stays an integer.
Grid == 2 * HalfSteps
Coords == 0 .. Grid
Deltas == (0 - Grid) .. Grid
Center == HalfSteps

Urls == {1, 2}
Keys == {1}
Sessions == 1 .. MaxStartups
Handlers == {"h1", "h2"}
LifeHandlers == {"h1"}
Conns == {"A", "B"}
Resources == {"playwright", "browser", "context", "page"}

VARIABLES
    state,       \* web_appState: the four handles; None or the run that made them
    active_connections,
    res,         \* per init_browser run: each resource absent / live / released
    initPc,      \* the await init_browser is suspended at
    startups,    \* startup_event invocations so far
    shutPc,      \* the step shutdown_event is at
    shutdowns,   \* shutdown_event invocations so far
    staleRelease,\* a release call was made on an already released resource
    hist,        \* navigation history of state.page: sequence of urls
    idx,         \* current position in hist
    focus,       \* document.activeElement is INPUT / TEXTAREA / contentEditable
    pc,          \* per request slot: the await the handler is suspended at
    req,         \* per request slot: payload, engine calls issued, response
    wsPc,        \* per websocket: the await websocket_screenshot is suspended at
    wsExit,      \* per websocket: the path on which websocket_screenshot ended
    peer,        \* per websocket: the client side is still "open" or "gone"
    hung         \* the websockets whose pending screenshot or send never completes

vars == <<state, active_connections, res, initPc, startups, shutPc, shutdowns,
          staleRelease, hist, idx, focus, pc, req, wsPc, wsExit, peer, hung>>

lifeVars == <<state, res, initPc, startups, shutPc, shutdowns, staleRelease>>
pageVars == <<hist, idx, focus>>
cmdVars == <<pc, req>>
wsVars == <<active_connections, wsPc, wsExit, peer, hung>>

\* ------------------------------------------------------------- web_appState
NoState == [playwright |-> None, browser |-> None, context |-> None, page |-> None]
NoRes == [r \in Resources |-> "absent"]
NoReq == [cmd |-> "none", a |-> 0, b |-> 0, calls |-> <<>>, resp |-> "none",
          detail |-> "none", found |-> "none"]

Init ==
    /\ state = NoState
    /\ active_connections = {}
    /\ res = [s \in Sessions |-> NoRes]
    /\ initPc = "idle"
    /\ startups = 0
    /\ shutPc = "idle"
    /\ shutdowns = 0
    /\ staleRelease = FALSE
    /\ hist = <<>>
    /\ idx = 0
    /\ focus = FALSE
    /\ pc = [h \in Handlers |-> "idle"]
    /\ req = [h \in Handlers |-> NoReq]
    /\ wsPc = [c \in Conns |-> "closed"]
    /\ wsExit = [c \in Conns |-> "none"]
    /\ peer = [c \in Conns |-> "open"]
    /\ hung = {}

\* The state once startup_event has run init_browser to its end.
InitReady ==
    /\ state = [playwright |-> 1, browser |-> 1, context |-> 1, page |-> 1]
    /\ active_connections = {}
    /\ res = [s \in Sessions |-> IF s = 1 THEN [r \in Resources |-> "live"] ELSE NoRes]
    /\ initPc = "done"
    /\ startups = 1
    /\ shutPc = "idle"
    /\ shutdowns = 0
    /\ staleRelease = FALSE
    /\ hist = <<AboutBlank>>
    /\ idx = 1
    /\ focus = FALSE
    /\ pc = [h \in Handlers |-> "idle"]
    /\ req = [h \in Handlers |-> NoReq]
    /\ wsPc = [c \in Conns |-> "closed"]
    /\ wsExit = [c \in Conns |-> "none"]
    /\ peer = [c \in Conns |-> "open"]
    /\ hung = {}

\* ------------------------------------------------------------- init_browser
\* startup_event: called by the ASGI startup event and by ModalApp.startup.
startup_event ==
    /\ initPc \in {"idle", "done"}
    /\ shutPc = "idle" /\ shutdowns = 0
    /\ startups < MaxStartups
    /\ startups' = startups + 1
    /\ initPc' = "playwright"
    /\ UNCHANGED <<state, res, shutPc, shutdowns, staleRelease, pageVars, cmdVars, wsVars>>

\* One acquisition of init_browser: the awaited call returns the resource,
\* which is stored in `state`, or raises and init_browser stops there.
Acquire(field, next) ==
    /\ \E ok \in BOOLEAN :
        IF ok
        THEN /\ state' = [state EXCEPT ![field] = startups]
             /\ res' = [res EXCEPT ![startups][field] = "live"]
             /\ initPc' = next
        ELSE /\ initPc' = "failed"
             /\ UNCHANGED <<state, res>>
    /\ UNCHANGED <<startups, shutPc, shutdowns, staleRelease, cmdVars, wsVars>>

\* state.playwright = await async_playwright().start()
init_playwright ==
    /\ initPc = "playwright"
    /\ Acquire("playwright", "browser")
    /\ UNCHANGED pageVars

\* state.browser = await state.playwright.chromium.launch(...)
init_launch ==
    /\ initPc = "browser"
    /\ Acquire("browser", "context")
    /\ UNCHANGED pageVars

\* state.context = await state.browser.new_context(...)
init_new_context ==
    /\ initPc = "context"
    /\ Acquire("context", "page")
    /\ UNCHANGED pageVars

\* state.page = await state.context.new_page(): a fresh page shows the
\* initial about:blank document, nothing focused.
init_new_page ==
    /\ initPc = "page"
    /\ Acquire("page", "goto")
    /\ IF initPc' = "goto"
       THEN hist' = <<AboutBlank>> /\ idx' = 1 /\ focus' = FALSE
       ELSE UNCHANGED pageVars

\* ------------------------------------------------------- the page (engine)
\* The engine runs each call atomically.  A call on a page whose context has
\* been closed raises; a call on a live page may raise as well.
PageLive == state.page # None /\ res[state.page].page = "live"
Outcomes == IF PageLive THEN {"ok", "raised"} ELSE {"raised"}
NavOutcomes == IF PageLive THEN {"ok", "raised", "raised_after_commit"} ELSE {"raised"}

\* page.goto(url): a new entry replaces everything after the current one.
NavGoto(url) == [hist |-> Append(SubSeq(hist, 1, idx), url), idx |-> idx + 1]
\* page.go_back(): one entry back, or no navigation at the first entry.
NavBack == [hist |-> hist, idx |-> IF idx > 1 THEN idx - 1 ELSE idx]
\* page.go_forward() and window.history.forward(): one entry forward, or no
\* navigation at the last entry.
NavForward == [hist |-> hist, idx |-> IF idx < Len(hist) THEN idx + 1 ELSE idx]

\* A navigation that leaves the document loads a new one, whose script may or
\* may not focus an input; one that goes nowhere leaves the focus alone.
Land(to) ==
    /\ hist' = to.hist
    /\ idx' = to.idx
    /\ IF to.hist = hist /\ to.idx = idx
       THEN focus' = focus
       ELSE focus' \in BOOLEAN

\* await state.page.goto('about:blank'): the last step of init_browser.
\* On the fresh page the navigation replaces the initial about:blank entry.
init_goto_blank ==
    /\ initPc = "goto"
    /\ \E out \in NavOutcomes :
        /\ out # "raised" => idx < MaxHist
        /\ initPc' = IF out = "ok" THEN "done" ELSE "failed"
        /\ IF out = "raised" \/ hist = <<AboutBlank>>
           THEN UNCHANGED pageVars
           ELSE Land(NavGoto(AboutBlank))
    /\ UNCHANGED <<state, res, startups, shutPc, shutdowns, staleRelease, cmdVars, wsVars>>

\* ----------------------------------------------------------- shutdown_event
\* shutdown_event: called by the ASGI shutdown event and by ModalApp.shutdown.
shutdown_event ==
    /\ initPc \in {"idle", "done", "failed"}
    /\ shutPc \in {"idle", "done", "faulted"}
    /\ shutdowns < MaxShutdowns
    /\ shutdowns' = shutdowns + 1
    /\ shutPc' = "context"
    /\ UNCHANGED <<state, res, initPc, startups, staleRelease, pageVars, cmdVars, wsVars>>

\* Closing a resource closes what it contains.
Contained(field) ==
    CASE field = "context" -> {"context", "page"}
      [] field = "browser" -> {"browser", "context", "page"}
      [] field = "playwright" -> Resources

\* The handle shutdown_event tests before a close: a handle that is set.
Held(field) == state[field] # None

\* `if state.<field>: await state.<field>.close()`.  The handle is never reset,
\* so a later shutdown_event finds it set and closes again; what a close of an
\* already closed resource does is the library's choice: nothing, or an error.
Close(field, next) ==
    /\ IF ~Held(field)
       THEN /\ shutPc' = next
            /\ UNCHANGED <<res, staleRelease>>
       ELSE IF res[state[field]][field] = "live"
       THEN /\ res' = [res EXCEPT ![state[field]] =
                         [r \in Resources |->
                            IF r \in Contained(field) /\ @[r] = "live"
                            THEN "released" ELSE @[r]]]
            /\ shutPc' = next
            /\ UNCHANGED staleRelease
       ELSE /\ staleRelease' = TRUE
            /\ \E fault \in BOOLEAN : shutPc' = IF fault THEN "faulted" ELSE next
            /\ UNCHANGED res
    /\ UNCHANGED <<state, initPc, startups, shutdowns, pageVars, cmdVars, wsVars>>

shutdown_context ==
    /\ shutPc = "context"
    /\ Close("context", "browser")
shutdown_browser ==
    /\ shutPc = "browser"
    /\ Close("browser", "playwright")
shutdown_playwright ==
    /\ shutPc = "playwright"
    /\ Close("playwright", "done")

NextLifecycle ==
    \/ startup_event
    \/ init_playwright
    \/ init_launch
    \/ init_new_context
    \/ init_new_page
    \/ init_goto_blank
    \/ shutdown_event
    \/ shutdown_context
    \/ shutdown_browser
    \/ shutdown_playwright

\* --------------------------------------------------------- command handlers
\* `if not state.page: raise HTTPException(500, "Page not initialized")`
PageSet == state.page # None

\* Mutant: the height scaled by the viewport width.
ToPixelYWidth(y) == y * ViewportWidth

\* payload.x * 1280 and payload.y * 800, in units of 1/Grid pixel.
ToPixelX(x) == x * ViewportWidth
ToPixelY(y) == y * ViewportHeight

\* The f-string of scroll_page writes a float as sign and magnitude; the page
\* reads the text back as a number.
PyFormat(v) == IF v < 0 THEN <<"-", 0 - v>> ELSE <<"", v>>
JsNumber(t) == IF t[1] = "-" THEN 0 - t[2] ELSE t[2]

B2N(b) == IF b THEN 1 ELSE 0

\* Entry of a handler up to its first await: the guard on state.page.
Enter(h, cmd, a, b, first) ==
    /\ IF PageSet
       THEN /\ pc' = [pc EXCEPT ![h] = first]
            /\ req' = [req EXCEPT ![h] = [NoReq EXCEPT !.cmd = cmd, !.a = a, !.b = b]]
       ELSE /\ pc' = [pc EXCEPT ![h] = "ret"]
            /\ req' = [req EXCEPT ![h] = [NoReq EXCEPT !.cmd = cmd, !.a = a, !.b = b,
                                                       !.resp = "NotInitialized",
                                                       !.detail = "Page not initialized"]]
    /\ UNCHANGED <<lifeVars, pageVars, wsVars>>

\* Engine call `call` of the handler has returned; the handler goes on to
\* `next` ("ret": it returns `resp`).  The call is noted with its outcome.
Step(h, call, next, resp) ==
    /\ pc' = [pc EXCEPT ![h] = next]
    /\ req' = [req EXCEPT ![h].calls = Append(@, call \o <<"ok">>), ![h].resp = resp]

\* str(e): the message of the exception the engine raised for `call`.
StrE(call) == call[1]

\* Mutant: the exception swallowed and success returned.
RaisedSwallowed(h, call) ==
    /\ pc' = [pc EXCEPT ![h] = "ret"]
    /\ req' = [req EXCEPT ![h].calls = Append(@, call \o <<"raised">>),
                          ![h].resp = "ok"]

\* `except Exception as e: raise HTTPException(status_code=500, detail=str(e))`
Raised(h, call) ==
    /\ pc' = [pc EXCEPT ![h] = "ret"]
    /\ req' = [req EXCEPT ![h].calls = Append(@, call \o <<"raised">>),
                          ![h].resp = "HTTP500",
                          ![h].detail = StrE(call)]

\* The response leaves; the slot is free for the next request.
Respond(h) ==
    /\ pc[h] = "ret"
    /\ pc' = [pc EXCEPT ![h] = "idle"]
    /\ req' = [req EXCEPT ![h] = NoReq]
    /\ UNCHANGED <<lifeVars, pageVars, wsVars>>

\* ---- /hover
hover_coordinate(h, x, y) ==
    /\ pc[h] = "idle"
    /\ Enter(h, "hover", x, y, "mouse.move")

hover_move(h) ==
    /\ pc[h] = "mouse.move"
    /\ LET call == <<"mouse.move", ToPixelX(req[h].a), ToPixelY(req[h].b)>> IN
       \E out \in Outcomes :
          IF out = "ok" THEN Step(h, call, "ret", "ok") ELSE Raised(h, call)
    /\ UNCHANGED <<lifeVars, pageVars, wsVars>>

\* ---- /scroll
scroll_page(h, dx, dy) ==
    /\ pc[h] = "idle"
    /\ Enter(h, "scroll", dx, dy, "scrollBy")

scroll_by(h) ==
    /\ pc[h] = "scrollBy"
    /\ LET call == <<"scrollBy", JsNumber(PyFormat(ToPixelX(req[h].a))),
                                 JsNumber(PyFormat(ToPixelY(req[h].b)))>> IN
       \E out \in Outcomes :
          IF out = "ok" THEN Step(h, call, "ret", "ok") ELSE Raised(h, call)
    /\ UNCHANGED <<lifeVars, pageVars, wsVars>>

\* ---- /click
click_coordinate(h, x, y) ==
    /\ pc[h] = "idle"
    /\ Enter(h, "click", x, y, "mouse.click")

\* await state.page.mouse.click(px, py): the click lands on whatever is under
\* the pointer, which takes or loses the focus.
click_mouse(h) ==
    /\ pc[h] = "mouse.click"
    /\ LET call == <<"mouse.click", ToPixelX(req[h].a), ToPixelY(req[h].b)>> IN
       \E out \in Outcomes :
          IF out = "ok"
          THEN /\ Step(h, call, "elementFromPoint", "none")
               /\ focus' \in BOOLEAN
          ELSE /\ Raised(h, call)
               /\ focus' = focus
    /\ UNCHANGED <<lifeVars, hist, idx, wsVars>>

\* What document.elementFromPoint finds, and what element.focus() does to it.
Elements == {"null", "input", "focusable", "inert"}
FocusAfter(elem) ==
    CASE elem = "input" -> TRUE
      [] elem = "focusable" -> FALSE
      [] OTHER -> focus

\* Mutant: `focused` reported only for an input.
FocusedInputOnly(elem) == elem = "input"

\* The value of `element` returned by the evaluate of click_coordinate.
Focused(elem) == elem # "null"

\* await state.page.evaluate(elementFromPoint ... focus, px, py)
click_focus(h) ==
    /\ pc[h] = "elementFromPoint"
    /\ LET call == <<"elementFromPoint", ToPixelX(req[h].a), ToPixelY(req[h].b)>> IN
       \E out \in Outcomes :
          IF out = "ok"
          THEN \E elem \in Elements :
                  /\ pc' = [pc EXCEPT ![h] = "ret"]
                  /\ req' = [req EXCEPT
                        ![h].calls = Append(@, call \o <<"ok">>),
                        ![h].resp = IF Focused(elem) THEN "ok_focused" ELSE "ok_unfocused",
                        ![h].found = elem]
                  /\ focus' = FocusAfter(elem)
          ELSE /\ Raised(h, call)
               /\ focus' = focus
    /\ UNCHANGED <<lifeVars, hist, idx, wsVars>>

\* ---- /keyboard
type_keys(h, key) ==
    /\ pc[h] = "idle"
    /\ Enter(h, "keyboard", key, 0, "activeElement")

\* Mutant: the result of the focus check ignored.
HasFocusedAlways(seen) == TRUE

\* `if not has_focused:` of type_keys
HasFocused(seen) == seen

\* await state.page.evaluate(activeElement is input-like)
keyboard_check(h) ==
    /\ pc[h] = "activeElement"
    /\ LET call == <<"activeElement", B2N(focus), 0>> IN
       \E out \in Outcomes :
          IF out = "ok"
          THEN IF HasFocused(focus)
               THEN Step(h, call, "keyboard.press", "none")
               ELSE Step(h, call, "ret", "soft")
          ELSE Raised(h, call)
    /\ UNCHANGED <<lifeVars, pageVars, wsVars>>

\* await state.page.keyboard.press(payload.key): the key goes to whatever has
\* the focus now, and may move the focus (Tab).
keyboard_press(h) ==
    /\ pc[h] = "keyboard.press"
    /\ LET call == <<"keyboard.press", req[h].a, B2N(focus)>> IN
       \E out \in Outcomes :
          IF out = "ok"
          THEN /\ Step(h, call, "ret", "ok")
               /\ focus' \in BOOLEAN
          ELSE /\ Raised(h, call)
               /\ focus' = focus
    /\ UNCHANGED <<lifeVars, hist, idx, wsVars>>

\* ---- /goto
goto_url(h, url) ==
    /\ pc[h] = "idle"
    /\ Enter(h, "goto", url, 0, "page.goto")

\* await state.page.goto(payload.url, wait_until='networkidle'): the call may
\* raise before the navigation commits or after it (network never idle).
goto_navigate(h) ==
    /\ pc[h] = "page.goto"
    /\ LET call == <<"page.goto", req[h].a, 0>> IN
       \E out \in NavOutcomes :
          /\ out # "raised" => idx < MaxHist
          /\ IF out = "ok" THEN Step(h, call, "ret", "ok") ELSE Raised(h, call)
          /\ IF out = "raised" THEN UNCHANGED pageVars ELSE Land(NavGoto(req[h].a))
    /\ UNCHANGED <<lifeVars, wsVars>>

\* ---- /back
go_back(h) ==
    /\ pc[h] = "idle"
    /\ Enter(h, "back", 0, 0, "history.length")

\* Mutant: the comparison off by one.
CanGoBackOffByOne(length) == length >= 1

\* window.history.length > 1
CanGoBack(length) == length > 1

\* await state.page.evaluate("window.history.length > 1")
back_check(h) ==
    /\ pc[h] = "history.length"
    /\ LET call == <<"history.length", Len(hist), idx>> IN
       \E out \in Outcomes :
          IF out = "ok"
          THEN IF CanGoBack(Len(hist))
               THEN Step(h, call, "page.go_back", "none")
               ELSE Step(h, call, "ret", "soft")
          ELSE Raised(h, call)
    /\ UNCHANGED <<lifeVars, pageVars, wsVars>>

\* await state.page.go_back(wait_until='networkidle')
back_navigate(h) ==
    /\ pc[h] = "page.go_back"
    /\ LET call == <<"page.go_back", idx, NavBack.idx>> IN
       \E out \in NavOutcomes :
          /\ IF out = "ok" THEN Step(h, call, "ret", "ok") ELSE Raised(h, call)
          /\ IF out = "raised" THEN UNCHANGED pageVars ELSE Land(NavBack)
    /\ UNCHANGED <<lifeVars, wsVars>>

\* ---- /forward
go_forward(h) ==
    /\ pc[h] = "idle"
    /\ Enter(h, "forward", 0, 0, "history.forward")

\* The check of go_forward:
\*     const current = window.history.state;
\*     return window.history.forward(), window.history.state !== current;
\* history.forward() is the navigation itself: with a forward entry the page
\* traverses to it.  Whether history.state already differs when it is compared
\* depends on when the engine commits the traversal and on the state objects
\* of the two entries; without a forward entry nothing changes and the
\* comparison is false.
ForwardCheckResults == IF idx < Len(hist) THEN BOOLEAN ELSE {FALSE}
ForwardCheckEffect == NavForward

forward_check(h) ==
    /\ pc[h] = "history.forward"
    /\ LET call == <<"history.forward", idx, Len(hist)>> IN
       \E out \in Outcomes :
          IF out = "ok"
          THEN /\ \E can_go_forward \in ForwardCheckResults :
                    IF can_go_forward
                    THEN Step(h, call, "page.go_forward", "none")
                    ELSE Step(h, call, "ret", "soft")
               /\ Land(ForwardCheckEffect)
          ELSE /\ Raised(h, call)
               /\ UNCHANGED pageVars
    /\ UNCHANGED <<lifeVars, wsVars>>

\* await state.page.go_forward(wait_until='networkidle')
forward_navigate(h) ==
    /\ pc[h] = "page.go_forward"
    /\ LET call == <<"page.go_forward", idx, NavForward.idx>> IN
       \E out \in NavOutcomes :
          /\ IF out = "ok" THEN Step(h, call, "ret", "ok") ELSE Raised(h, call)
          /\ IF out = "raised" THEN UNCHANGED pageVars ELSE Land(NavForward)
    /\ UNCHANGED <<lifeVars, wsVars>>

\* The commands, for request slots H and pointer inputs P, scroll inputs D.
Commands(H, P, D) ==
    \/ \E h \in H, x \in P, y \in P : hover_coordinate(h, x, y)
    \/ \E h \in H : hover_move(h)
    \/ \E h \in H, dx \in D, dy \in D : scroll_page(h, dx, dy)
    \/ \E h \in H : scroll_by(h)
    \/ \E h \in H, x \in P, y \in P : click_coordinate(h, x, y)
    \/ \E h \in H : click_mouse(h)
    \/ \E h \in H : click_focus(h)
    \/ \E h \in H, key \in Keys : type_keys(h, key)
    \/ \E h \in H : keyboard_check(h)
    \/ \E h \in H : keyboard_press(h)
    \/ \E h \in H, url \in Urls : goto_url(h, url)
    \/ \E h \in H : goto_navigate(h)
    \/ \E h \in H : go_back(h)
    \/ \E h \in H : back_check(h)
    \/ \E h \in H : back_navigate(h)
    \/ \E h \in H : go_forward(h)
    \/ \E h \in H : forward_check(h)
    \/ \E h \in H : forward_navigate(h)
    \/ \E h \in H : Respond(h)

\* Two concurrent requests on the initialised session.
NextCmd == Commands(Handlers, {Center}, {Center})
SpecCmd == InitReady /\ [][NextCmd]_vars

\* One request at a time, over the whole grid of pointer and scroll inputs.
NextPointer ==
    \/ \E x \in Coords, y \in Coords : hover_coordinate("h1", x, y)
    \/ hover_move("h1")
    \/ \E dx \in Deltas, dy \in Deltas : scroll_page("h1", dx, dy)
    \/ scroll_by("h1")
    \/ \E x \in Coords, y \in Coords : click_coordinate("h1", x, y)
    \/ click_mouse("h1")
    \/ click_focus("h1")
    \/ Respond("h1")
SpecPointer == InitReady /\ [][NextPointer]_vars

\* Startup, shutdown and one request slot.
NextLife == NextLifecycle \/ Commands(LifeHandlers, {Center}, {Center})
SpecLife == Init /\ [][NextLife]_vars

\* ------------------------------------------------------- screenshot stream
\* Mutant: the registry cleared instead of one connection removed.
UnregisterAll(conns, c) == {}

\* Mutant: the `except` block leaving the connection in the registry.
UnregisterNone(conns, c) == conns

\* `if websocket in state.active_connections: state.active_connections.remove(websocket)`
Unregister(conns, c) == conns \ {c}

\* A loop that never finds its connection in the registry.
IsLiveNever(c) == FALSE

\* `if websocket not in state.active_connections: break`
IsLive(c) == c \in active_connections

\* Mutant: the `except` block inside the `while`, the loop carrying on.
AfterExceptionRetry == "screenshot"

\* Where screenshot_loop goes after its `except Exception` block: the block
\* is outside the `while`, so the coroutine ends.
AfterException == "returned"

\* A client opens /screenshot: websocket_screenshot runs up to `await accept()`.
websocket_screenshot(c) ==
    /\ wsPc[c] = "closed"
    /\ wsPc' = [wsPc EXCEPT ![c] = "accept"]
    /\ UNCHANGED <<active_connections, wsExit, peer, hung, lifeVars, pageVars, cmdVars>>

\* accept() returns: the connection is registered and screenshot_loop starts.
\* Without a page it raises RuntimeError before its `try`, which the handler's
\* `except Exception` answers by removing the connection again.  With a page
\* the first liveness check passes and the first screenshot is awaited.
ws_accept(c) ==
    /\ wsPc[c] = "accept"
    /\ IF peer[c] = "gone"
       THEN /\ wsPc' = [wsPc EXCEPT ![c] = "returned"]
            /\ wsExit' = [wsExit EXCEPT ![c] = "accept_raised"]
            /\ UNCHANGED active_connections
       ELSE IF ~PageSet
       THEN /\ active_connections' = Unregister(active_connections \cup {c}, c)
            /\ wsPc' = [wsPc EXCEPT ![c] = "returned"]
            /\ wsExit' = [wsExit EXCEPT ![c] = "handler_except"]
       ELSE /\ active_connections' = active_connections \cup {c}
            /\ wsPc' = [wsPc EXCEPT ![c] = "screenshot"]
            /\ UNCHANGED wsExit
    /\ UNCHANGED <<peer, hung, lifeVars, pageVars, cmdVars>>

\* Neither await of the loop has a timeout.  A capture that hangs never
\* returns; a send hangs for as long as the client stays connected without
\* reading, and raises once the client is gone.
CaptureHung(c) == c \in hung /\ wsPc[c] = "screenshot"
\* One send that hangs holding up the send of every loop.
SendHungAny(c) ==
    wsPc[c] = "send" /\ \E d \in Conns : d \in hung /\ wsPc[d] = "send" /\ peer[d] = "open"
SendHung(c) == c \in hung /\ wsPc[c] = "send" /\ peer[c] = "open"

\* The pending screenshot or send of the loop stops making progress.
await_hangs(c) ==
    /\ wsPc[c] \in {"screenshot", "send"}
    /\ c \notin hung
    /\ hung' = hung \cup {c}
    /\ UNCHANGED <<active_connections, wsPc, wsExit, peer, lifeVars, pageVars, cmdVars>>

\* The `except Exception` block of screenshot_loop.
LoopException(c) ==
    /\ active_connections' = Unregister(active_connections, c)
    /\ wsPc' = [wsPc EXCEPT ![c] = AfterException]
    /\ wsExit' = [wsExit EXCEPT ![c] = "loop_except"]

\* await state.page.screenshot(type='jpeg', quality=70)
loop_screenshot(c) ==
    /\ wsPc[c] = "screenshot"
    /\ ~CaptureHung(c)
    /\ \E out \in Outcomes :
          IF out = "ok"
          THEN /\ wsPc' = [wsPc EXCEPT ![c] = "send"]
               /\ UNCHANGED <<active_connections, wsExit>>
          ELSE LoopException(c)
    /\ UNCHANGED <<peer, hung, lifeVars, pageVars, cmdVars>>

\* await websocket.send_bytes(screenshot): raises once the client is gone.
loop_send(c) ==
    /\ wsPc[c] = "send"
    /\ ~SendHung(c)
    /\ IF peer[c] = "open"
       THEN /\ wsPc' = [wsPc EXCEPT ![c] = "sleep"]
            /\ UNCHANGED <<active_connections, wsExit>>
       ELSE LoopException(c)
    /\ UNCHANGED <<peer, hung, lifeVars, pageVars, cmdVars>>

\* await asyncio.sleep(0.03), then the liveness check of the next iteration.
loop_sleep(c) ==
    /\ wsPc[c] = "sleep"
    /\ IF IsLive(c)
       THEN /\ wsPc' = [wsPc EXCEPT ![c] = "screenshot"]
            /\ UNCHANGED wsExit
       ELSE /\ wsPc' = [wsPc EXCEPT ![c] = "returned"]
            /\ wsExit' = [wsExit EXCEPT ![c] = "break"]
    /\ UNCHANGED <<active_connections, peer, hung, lifeVars, pageVars, cmdVars>>

\* The client closes its side of the connection.
client_disconnect(c) ==
    /\ wsPc[c] \in {"accept", "screenshot", "send", "sleep"}
    /\ peer[c] = "open"
    /\ peer' = [peer EXCEPT ![c] = "gone"]
    /\ UNCHANGED <<active_connections, wsPc, wsExit, hung, lifeVars, pageVars, cmdVars>>

NextStream ==
    \/ \E c \in Conns : websocket_screenshot(c)
    \/ \E c \in Conns : ws_accept(c)
    \/ \E c \in Conns : loop_screenshot(c)
    \/ \E c \in Conns : loop_send(c)
    \/ \E c \in Conns : loop_sleep(c)
    \/ \E c \in Conns : client_disconnect(c)
    \/ \E c \in Conns : await_hangs(c)

\* Startup, shutdown and the viewers' connections.
NextWs == NextLifecycle \/ NextStream
SpecStream == Init /\ [][NextWs]_vars

\* The event loop resumes every coroutine whose awaited call has completed:
\* accept, screenshot, send and sleep each return or raise.
StreamFairness ==
    \A c \in Conns :
        /\ WF_vars(ws_accept(c))
        /\ WF_vars(loop_screenshot(c))
        /\ WF_vars(loop_send(c))
        /\ WF_vars(loop_sleep(c))
SpecStreamFair == SpecStream /\ StreamFairness

\* One request slot and the viewers' connections on the initialised session.
NextMix == Commands(LifeHandlers, {Center}, {Center}) \/ NextStream
SpecMix == InitReady /\ [][NextMix]_vars

\* The event loop resumes every coroutine whose awaited call can complete:
\* a request handler suspended on a page call is eventually resumed.
HandlerStep(h) ==
    \/ hover_move(h) \/ scroll_by(h)
    \/ click_mouse(h) \/ click_focus(h)
    \/ keyboard_check(h) \/ keyboard_press(h)
    \/ goto_navigate(h)
    \/ back_check(h) \/ back_navigate(h)
    \/ forward_check(h) \/ forward_navigate(h)
CmdFairness == \A h \in LifeHandlers : WF_vars(HandlerStep(h))

\* The viewers' connections next to one request handler issuing the pointer
\* and keyboard commands.
NextStall ==
    \/ NextStream
    \/ \E h \in LifeHandlers : hover_coordinate(h, Center, Center)
    \/ \E h \in LifeHandlers : hover_move(h)
    \/ \E h \in LifeHandlers : click_coordinate(h, Center, Center)
    \/ \E h \in LifeHandlers : click_mouse(h)
    \/ \E h \in LifeHandlers : click_focus(h)
    \/ \E h \in LifeHandlers, key \in Keys : type_keys(h, key)
    \/ \E h \in LifeHandlers : keyboard_check(h)
    \/ \E h \in LifeHandlers : keyboard_press(h)
    \/ \E h \in LifeHandlers : Respond(h)
SpecStall == InitReady /\ [][NextStall]_vars /\ StreamFairness /\ CmdFairness

\* ================================================================== claims
Calls(h) == req[h].calls
Returned(h, cmd) == pc[h] = "ret" /\ req[h].cmd = cmd /\ req[h].resp # "NotInitialized"

\* C1 (as claimed): the forward-availability check of forward() is a pure
\* read: the step that evaluates it leaves the history entries and the
\* position unchanged, with or without a forward entry.
C1_ForwardCheckPure ==
    [][\A h \in Handlers :
         (pc[h] = "history.forward" /\ pc'[h] # pc[h]) => (hist' = hist /\ idx' = idx)]_vars

\* C2 (as claimed): forward() returns the soft failure exactly when no forward
\* entry exists at its check; with a forward entry it navigates forward and
\* returns success; without one it issues no navigation.
C2_ForwardSoftIffNoEntry ==
    \A h \in Handlers :
        (Returned(h, "forward") /\ Calls(h)[1][4] = "ok") =>
            LET hadForward == Calls(h)[1][2] < Calls(h)[1][3] IN
            /\ (req[h].resp = "soft") <=> ~hadForward
            /\ hadForward => /\ Len(Calls(h)) = 2
                             /\ Calls(h)[2][1] = "page.go_forward"
                             /\ Calls(h)[2][4] = "ok" => req[h].resp = "ok"
            /\ ~hadForward => Len(Calls(h)) = 1

\* C3: when back() evaluates its check on a history of exactly one entry, the
\* handler ends there with the soft failure (or with the error of the check
\* itself, had the engine raised), without go_back: the history entries and
\* the position are unchanged by the step.
C3_BackSingleEntry ==
    [][\A h \in Handlers :
         (pc[h] = "history.length" /\ pc'[h] # pc[h] /\ Len(hist) = 1) =>
            /\ pc'[h] = "ret"
            /\ Len(Calls(h)') = 1
            /\ Calls(h)'[1][4] = "ok" => req'[h].resp = "soft"
            /\ Calls(h)'[1][4] = "raised" => req'[h].resp = "HTTP500"
            /\ hist' = hist /\ idx' = idx]_vars

C3_Witness ==
    \E h \in Handlers :
        /\ Returned(h, "back") /\ req[h].resp = "soft"
        /\ Calls(h) = <<<<"history.length", 1, 1, "ok">>>>

\* C4: a keyboard request whose focus check found no input-like element has
\* returned the soft failure (a normal response) with no key press issued; one
\* whose check found an input-like element has issued exactly one key press
\* after the check and, the press not raising, returned success.
C4_KeyboardSoftFailure ==
    \A h \in Handlers :
        (Returned(h, "keyboard") /\ Calls(h)[1][4] = "ok") =>
            /\ Calls(h)[1][2] = 0 => (req[h].resp = "soft" /\ Len(Calls(h)) = 1)
            /\ Calls(h)[1][2] = 1 =>
                   /\ Len(Calls(h)) = 2
                   /\ Calls(h)[2][1] = "keyboard.press"
                   /\ Calls(h)[2][4] = "ok" => req[h].resp = "ok"

C4_Witness ==
    \E h \in Handlers :
        /\ Returned(h, "keyboard") /\ req[h].resp = "soft"
        /\ Calls(h) = <<<<"activeElement", 0, 0, "ok">>>>

\* C5: once a connection that had been registered is absent from the
\* registry, its loop starts no capture and no send; a send in flight may
\* complete (the loop then sleeps), after which the loop only ends.
Unregistered(c) ==
    c \notin active_connections /\ wsPc[c] \in {"screenshot", "send", "sleep", "returned"}

C5_NoFrameAfterUnregister ==
    [][\A c \in Conns :
         Unregistered(c) =>
            /\ wsPc'[c] \in {"screenshot", "send"} => wsPc'[c] = wsPc[c]
            /\ wsPc'[c] = "sleep" => wsPc[c] \in {"send", "sleep"}
            /\ wsPc[c] = "returned" => wsPc'[c] = "returned"]_vars

C5_Witness ==
    \E c \in Conns :
        /\ wsExit[c] = "loop_except" /\ peer[c] = "gone"
        /\ Unregistered(c) /\ wsPc[c] = "returned"

\* C6: a step that removes one connection from the registry leaves every
\* other registered connection registered and its loop where it was.
C6_UnregisterOnlyOne ==
    [][\A a \in Conns, b \in Conns :
         (a # b /\ a \in active_connections /\ a \notin active_connections'
               /\ b \in active_connections) =>
            (b \in active_connections' /\ wsPc'[b] = wsPc[b] /\ wsExit'[b] = wsExit[b])]_vars

C6_Witness ==
    /\ wsExit["A"] = "loop_except" /\ "A" \notin active_connections
    /\ "B" \in active_connections /\ wsPc["B"] = "send" /\ peer["B"] = "open"

\* C7 (as claimed): no shutdown_event raises, after a complete or a partial
\* init_browser, and no shutdown_event calls a release on a resource that is
\* already released.
C7_TeardownIdempotent == shutPc # "faulted" /\ ~staleRelease

\* C8 (as claimed): a command entered while the session's initialization has
\* not completed answers NotInitialized and goes no further.
SessionReady == PageSet /\ (state.page < startups \/ initPc = "done")

C8_NotInitializedUntilReady ==
    [][\A h \in LifeHandlers :
         (pc[h] = "idle" /\ pc'[h] # "idle" /\ ~SessionReady) =>
            (pc'[h] = "ret" /\ req'[h].resp = "NotInitialized")]_vars

\* C9 (as claimed): at most one set of session resources is created and not
\* yet released.
LiveSessions == {s \in Sessions : \E r \in Resources : res[s][r] = "live"}

C9_AtMostOneSession == Cardinality(LiveSessions) <= 1

\* C10: the pointer call of hover and of click, the focus query of click and
\* the relative scroll of scroll carry (x * 1280, y * 800) of the request's
\* payload (in units of 1/Grid pixel); for the payload (0.5, 0.5) that is the
\* pixel (640, 400).
AtPixel(call, op, h) ==
    /\ call[1] = op
    /\ call[2] = req[h].a * 1280
    /\ call[3] = req[h].b * 800
    /\ (req[h].a = Center /\ req[h].b = Center) =>
           (call[2] = 640 * Grid /\ call[3] = 400 * Grid)

C10_PixelTargets ==
    \A h \in Handlers :
        /\ Returned(h, "hover") =>
              Len(Calls(h)) = 1 /\ AtPixel(Calls(h)[1], "mouse.move", h)
        /\ Returned(h, "scroll") =>
              Len(Calls(h)) = 1 /\ AtPixel(Calls(h)[1], "scrollBy", h)
        /\ Returned(h, "click") =>
              /\ AtPixel(Calls(h)[1], "mouse.click", h)
              /\ Calls(h)[1][4] = "ok" =>
                    Len(Calls(h)) = 2 /\ AtPixel(Calls(h)[2], "elementFromPoint", h)

C10_Witness ==
    /\ Returned("h1", "click") /\ req["h1"].resp = "ok_focused"
    /\ req["h1"].a = Center /\ req["h1"].b = Center
    /\ Calls("h1") = << <<"mouse.click", 640 * Grid, 400 * Grid, "ok">>,
                        <<"elementFromPoint", 640 * Grid, 400 * Grid, "ok">> >>

\* C11: a connection whose client has disconnected is eventually out of the
\* registry with its handler ended, each capture call returning; and it
\* ended on the exception path of the loop (or of accept), not by a retry.
C11_DisconnectUnregisters ==
    /\ \A c \in Conns :
          (peer[c] = "gone" /\ ~CaptureHung(c)) ~>
              ((c \notin active_connections /\ wsPc[c] = "returned") \/ CaptureHung(c))
    /\ [](\A c \in Conns :
            (peer[c] = "gone" /\ wsPc[c] = "returned") =>
                wsExit[c] \in {"loop_except", "accept_raised"})

C11_Witness ==
    \E c \in Conns :
        /\ peer[c] = "gone" /\ PageLive
        /\ wsExit[c] = "loop_except" /\ wsPc[c] = "returned"
        /\ c \notin active_connections

\* C13 (as claimed): once a shutdown_event has run to its end no resource
\* that an init_browser acquired is still live, and the releases go in
\* reverse order of acquisition: nothing is live inside a released container.
ReverseOrder(s) ==
    /\ res[s]["context"] = "released" => res[s]["page"] # "live"
    /\ res[s]["browser"] = "released" => res[s]["context"] # "live"
    /\ res[s]["playwright"] = "released" => res[s]["browser"] # "live"

C13_TeardownReleasesAll ==
    /\ \A s \in Sessions : ReverseOrder(s)
    /\ shutPc = "done" => \A s \in Sessions, r \in Resources : res[s][r] # "live"

\* C14: an engine call that raised is the last call of its request, whose
\* response is the HTTP 500 carrying that exception's message; the step in
\* which it raised leaves the session handles, the resources, the registry
\* and every connection's loop as they were.
RaisedIsFinal(h) ==
    \A i \in 1 .. Len(Calls(h)) :
        Calls(h)[i][4] = "raised" =>
            /\ i = Len(Calls(h))
            /\ pc[h] = "ret"
            /\ req[h].resp = "HTTP500"
            /\ req[h].detail = Calls(h)[i][1]

RaisesNow(h) ==
    /\ Len(Calls(h)') = Len(Calls(h)) + 1
    /\ Calls(h)'[Len(Calls(h)')][4] = "raised"

C14_OperationFailure ==
    /\ [](\A h \in Handlers : RaisedIsFinal(h))
    /\ [][\A h \in Handlers :
            RaisesNow(h) => UNCHANGED <<state, res, active_connections, wsPc, wsExit>>]_vars

C14_Witness ==
    \E h \in Handlers :
        /\ pc[h] = "ret" /\ req[h].resp = "HTTP500" /\ req[h].detail = "page.goto"
        /\ "B" \in active_connections /\ wsPc["B"] = "send"

\* C15: a back request whose history check ran while the page was positioned
\* at the first entry of its history (no previous entry) has returned the
\* soft failure and has issued no go_back navigation.
C15_BackAtFirstEntry ==
    \A h \in Handlers :
        (Returned(h, "back") /\ Calls(h)[1][4] = "ok" /\ Calls(h)[1][3] = 1) =>
            (req[h].resp = "soft" /\ Len(Calls(h)) = 1)

\* C16: while the pending capture or send of one connection hangs, every
\* other registered connection whose loop is about to capture gets its frame
\* sent (or leaves the registry, or hangs itself), again and again; and a
\* request handler suspended on a page call reaches its response.
Stalled(c) == CaptureHung(c) \/ SendHung(c)

C16_StallIsPerConnection ==
    /\ \A a \in Conns : \A b \in Conns \ {a} :
          (Stalled(a) /\ b \in active_connections /\ b \notin hung /\ wsPc[b] = "screenshot") ~>
              (wsPc[b] = "sleep" \/ b \notin active_connections \/ b \in hung)
    /\ \A a \in Conns, h \in LifeHandlers :
          (Stalled(a) /\ pc[h] \notin {"idle", "ret"}) ~> (pc[h] = "ret")

C16_Witness ==
    /\ SendHung("A") /\ "A" \in active_connections
    /\ "B" \in active_connections /\ "B" \notin hung /\ wsPc["B"] = "sleep"
    /\ \E h \in LifeHandlers : pc[h] = "ret" /\ req[h].resp = "ok"

\* C17: every key press dispatched by a keyboard request reaches
\* the page while an input-like element is focused.
C17_PressWhileFocused ==
    \A h \in Handlers : \A i \in 1..Len(Calls(h)) :
        Calls(h)[i][1] = "keyboard.press" => Calls(h)[i][3] = 1

\* What type_keys does guarantee for C17: a key press is dispatched only as
\* the second call of a keyboard request whose own focus check, the first
\* call, found an input-like element focused.
C17_PressAfterOwnCheck ==
    \A h \in Handlers : \A i \in 1..Len(Calls(h)) :
        Calls(h)[i][1] = "keyboard.press" =>
            /\ i = 2
            /\ req[h].cmd = "keyboard"
            /\ Calls(h)[1] = <<"activeElement", 1, 0, "ok">>

C17_Witness ==
    \E h \in Handlers :
        /\ Returned(h, "keyboard") /\ req[h].resp = "ok"
        /\ Calls(h) = <<<<"activeElement", 1, 0, "ok">>,
                        <<"keyboard.press", req[h].a, 0, "ok">>>>

\* C18: a connection is in the registry exactly while its handler is inside
\* the loop: after registration and before the handler has ended.
InLoop(c) == wsPc[c] \in {"screenshot", "send", "sleep"}

C18_RegistryIffLoopRunning ==
    \A c \in Conns : c \in active_connections <=> InLoop(c)

C18_Witness ==
    /\ wsPc["A"] = "returned" /\ wsExit["A"] = "handler_except"
    /\ "A" \notin active_connections
    /\ "B" \in active_connections /\ wsPc["B"] = "send"

\* C19: a click request issues the pointer click first; it issues the
\* query-and-focus call second, and only when the pointer click did not
\* raise; the query not raising, it answers focused: true exactly when the
\* query found an element at the clicked pixel.
C19_ClickThenQuery ==
    \A h \in Handlers :
        /\ (req[h].cmd = "click" /\ pc[h] = "elementFromPoint") =>
               (Len(Calls(h)) = 1 /\ Calls(h)[1][1] = "mouse.click" /\ Calls(h)[1][4] = "ok")
        /\ Returned(h, "click") =>
               /\ Calls(h)[1][1] = "mouse.click"
               /\ Calls(h)[1][4] = "raised" => Len(Calls(h)) = 1
               /\ Calls(h)[1][4] = "ok" =>
                      /\ Len(Calls(h)) = 2
                      /\ Calls(h)[2][1] = "elementFromPoint"
                      /\ Calls(h)[2][4] = "ok" =>
                             /\ req[h].resp \in {"ok_focused", "ok_unfocused"}
                             /\ req[h].resp = "ok_focused" <=> req[h].found # "null"

C19_Witness ==
    \E h \in Handlers :
        /\ Returned(h, "click") /\ req[h].resp = "ok_focused"
        /\ req[h].found = "inert"
        /\ Len(Calls(h)) = 2 /\ Calls(h)[2][4] = "ok"

====
